---- MODULE Spec2Model ----
(***************************************************************************)
(* Transcript synchronisation and editing of whisper-web:                  *)
(*   - useTranscriber (src/src/hooks/useTranscriber.ts): the transcript    *)
(*     state and the handler of the recognition worker's messages;         *)
(*   - Transcript (src/unnamed/part_000, lines 13-372): playback position, *)
(*     active-segment lookup, edit session and keyboard handlers;          *)
(*   - the <audio> element (the playback transport) as the handlers use it.*)
(*                                                                         *)
(* Times are whole seconds.  Playback rates are counted in quarters        *)
(* (4 = 1.0x), so that the steps of 0.25 are steps of 1.  Indices are the  *)
(* source's 0-based indices; chunks[i] of the source is Chunk(td, i).      *)
(* A React state update re-renders the component; the model's step is the  *)
(* handler together with the render and the effects that follow it.        *)
(***************************************************************************)
EXTENDS Integers, Sequences, FiniteSets, TLC

\* ------------------------------------------------------------------ bounds
MaxTime == 2          \* timestamps and playback positions are 0..MaxTime
MaxChunks == 2        \* an engine message carries at most MaxChunks chunks
MaxPending == 2       \* transcription requests posted and not yet answered
MaxUrls == 2          \* the URLs a user enters are 1..MaxUrls
MaxDownloads == 2     \* downloads and recordings that have not ended
MaxItems == 2         \* progress items of model files being loaded

\* ------------------------------------------------------- program constants
InitSpeed == 4        \* useState(1): 1.0x
SpeedStep == 1        \* 0.25
MaxSpeed == 16        \* Math.min(4, ...)
MinSpeed == 1         \* Math.max(0.25, ...)

\* null (timestamp[1] of an open chunk, editingIndex when idle) and the
\* lookup's "none" are both outside every index and time of the model.
NULL == 0 - 1
NONE == 0 - 1

Times == 0..MaxTime
Texts == {"a", "b"}          \* chunk texts the engine produces
Drafts == {"x"}              \* what the user types into the edit control

Min(a, b) == IF a < b THEN a ELSE b
Max(a, b) == IF a > b THEN a ELSE b

\* ------------------------------------------------------------- data model
\* TranscriberChunk: text, timestamp [start, end | null], isEdited.
ChunkTimestamps == {ts \in Times \X (Times \cup {NULL}) : ts[2] = NULL \/ ts[2] >= ts[1]}

\* A chunk as the engine sends it (no isEdited).
EngineChunks == [text : Texts, timestamp : ChunkTimestamps]

\* The chunk lists of the engine's update/complete messages: start times do
\* not decrease and a chunk that carries its own end ends no later than the
\* next chunk starts (silence between two chunks leaves a gap).
Ordered(cs) ==
    \A i \in 1..(Len(cs) - 1) :
        /\ cs[i].timestamp[1] <= cs[i + 1].timestamp[1]
        /\ cs[i].timestamp[2] # NULL => cs[i].timestamp[2] <= cs[i + 1].timestamp[1]

EngineChunkLists ==
    {cs \in UNION {[1..n -> EngineChunks] : n \in 0..MaxChunks} : Ordered(cs)}

RECURSIVE Join(_)
\* chunks.map(chunk => chunk.text).join('')
Join(cs) == IF cs = <<>> THEN "" ELSE Head(cs).text \o Join(Tail(cs))

\* The engine's message payload: the chunk list and the full text, which
\* the engine forms from the same chunks.
EngineMsgs == {[text |-> Join(cs), chunks |-> cs] : cs \in EngineChunkLists}

NoError == "none"
EngineError == "engine error"

\* TranscriberData | undefined.  "defined" is FALSE for undefined, whose
\* other fields are then never read as the transcript's.
Undefined ==
    [defined |-> FALSE, chunks |-> <<>>, text |-> "", isBusy |-> FALSE,
     isModelLoading |-> FALSE, error |-> NoError]

EmptyTranscript ==
    [defined |-> TRUE, chunks |-> <<>>, text |-> "", isBusy |-> FALSE,
     isModelLoading |-> FALSE, error |-> NoError]

\* chunks[i], 0-based as in the source
Chunk(td, i) == td.chunks[i + 1]
HasChunk(td, i) == td.defined /\ i >= 0 /\ i < Len(td.chunks)

\* prevTranscript?.chunks[i]?.isEdited || false
PrevEdited(prev, i) == HasChunk(prev, i) /\ Chunk(prev, i).isEdited


\* ------------------------------------------------- active-segment lookup
\* The end the lookup gives chunk i: its own end, else the next chunk's
\* start, else (last chunk) the audio duration.
\*   chunk.timestamp[1] ?? (i < length - 1 ? chunks[i + 1].timestamp[0]
\*                                         : audioDuration)
LookupEnd(td, i, dur) ==
    IF Chunk(td, i).timestamp[2] # NULL THEN Chunk(td, i).timestamp[2]
    ELSE IF i < Len(td.chunks) - 1 THEN Chunk(td, i + 1).timestamp[1]
    ELSE dur

\* The for loop of getCurrentUtteranceIndex: the first chunk whose range
\* holds the time, or -1.
ScanChunks(td, ct, dur) ==
    LET hits == {i \in 0..(Len(td.chunks) - 1) :
                    ct >= Chunk(td, i).timestamp[1] /\ ct < LookupEnd(td, i, dur)}
    IN IF hits = {} THEN NONE
       ELSE CHOOSE i \in hits : \A j \in hits : i <= j

\* Mutant of getCurrentUtteranceIndex: the streaming special case is
\* missing.
LookupNoStreaming(td, ct, dur) ==
    IF ~td.defined \/ Len(td.chunks) = 0 THEN NONE
    ELSE ScanChunks(td, ct, dur)

\* getCurrentUtteranceIndex, on the transcript, currentTime and
\* audioDuration of the render it belongs to.
getCurrentUtteranceIndex(td, ct, dur) ==
    IF ~td.defined \/ Len(td.chunks) = 0 THEN NONE
    ELSE IF td.isBusy /\ ct >= Chunk(td, Len(td.chunks) - 1).timestamp[1]
         THEN Len(td.chunks) - 1
    ELSE ScanChunks(td, ct, dur)

\* Transcript's render of chunk i as the one playing:
\*   end = i < length - 1 ? chunks[i + 1].timestamp[0]
\*                        : (chunk.timestamp[1] || audioDuration)
\*   isPlaying = currentTime >= start && currentTime < end
RenderEnd(td, i, dur) ==
    IF i < Len(td.chunks) - 1 THEN Chunk(td, i + 1).timestamp[1]
    ELSE IF Chunk(td, i).timestamp[2] = NULL \/ Chunk(td, i).timestamp[2] = 0
         THEN dur
    ELSE Chunk(td, i).timestamp[2]

isPlaying(td, i, ct, dur) ==
    ct >= Chunk(td, i).timestamp[1] /\ ct < RenderEnd(td, i, dur)

\* ----------------------------------------------------------- AudioManager
\* audioData: its source (AudioSource) and, for a download, the URL it was
\* downloaded from.
Urls == 1..MaxUrls
NoAudio == [source |-> "none", url |-> NULL]
FileAudio == [source |-> "FILE", url |-> NULL]
RecordingAudio == [source |-> "RECORDING", url |-> NULL]
UrlAudio(u) == [source |-> "URL", url |-> u]

\* A call of downloadAudioFromUrl: its URL, whether its AbortController
\* has been aborted, whether it awaits axios.get ("fetch") or
\* decodeAudioData ("decode"), and the transcript that onUrlUpdate found
\* when the URL was entered.
Download(u, aborted, stage, prior) ==
    [url |-> u, aborted |-> aborted, stage |-> stage, prior |-> prior]

\* ProgressItem of the hook: the model file and its load progress (NULL
\* while the message carried none).
Files == {"f", "g"}
ProgressValues == {50, 100}
ProgressItem(f, p) == [file |-> f, progress |-> p]

\* ------------------------------------------------------------------ state
VARIABLES
    \* useTranscriber
    transcript,       \* TranscriberData | undefined (Transcript's transcribedData)
    isBusy,           \* the hook's own isBusy
    isModelLoading,   \* the hook's own isModelLoading
    progressItems,    \* the hook's progressItems, a list of [file, progress]
    audioElement,     \* the hook's audioElement is the <audio> element (else null)
    pending,          \* requests posted to the worker and not yet answered
    \* Transcript
    currentTime,
    editingIndex,     \* NULL when idle
    editText,
    playbackSpeed,    \* in quarters
    audioDuration,
    audioRef,         \* audioRef.current is the <audio> element, with the
                      \* three listeners of the time-update effect on it
    lsnPlaybackSpeed, \* playbackSpeed in the closure of the keydown listener
    lsnAudioDuration, \* audioDuration in the closure of the keydown listener
    \* the <audio> element
    hasAudio,         \* audioData is set: the element is in the document
    audTime,          \* audio.currentTime
    audPaused,        \* audio.paused
    audRate,          \* audio.playbackRate, in quarters
    audDur,           \* audio.duration; 0 while it is NaN (no metadata yet)
    \* AudioManager
    audioData,        \* the source and URL of audioData; NoAudio for undefined
    audioDownloadUrl, \* NULL for undefined
    downloads,        \* the calls of downloadAudioFromUrl that have not ended
    recordings,       \* the calls of setAudioFromRecording that have not ended
    progress,         \* NULL for undefined
    audioRefStale,    \* Transcript's audioRef.current is an <audio> element
                      \* that has left the document
    detachedListeners,\* updateTime / updateDuration are attached to an element
                      \* that has left the document
    mounted           \* Transcript is mounted

hookVars == <<transcript, isBusy, isModelLoading, progressItems, audioElement,
              pending>>
viewVars == <<currentTime, editingIndex, editText, playbackSpeed, audioDuration,
              audioRef, audioRefStale, detachedListeners, mounted,
                   lsnPlaybackSpeed, lsnAudioDuration>>
mgrVars == <<audioData, audioDownloadUrl, downloads, recordings, progress>>
audioVars == <<hasAudio, audTime, audPaused, audRate, audDur, mgrVars>>
vars == <<hookVars, viewVars, audioVars>>

\* The state after the first render and its effects.  The time-update
\* effect looks the transport up with document.querySelector("audio"):
\* the component mounts in a document that holds an <audio> element
\* (with or without metadata) or none.
Init ==
    /\ transcript = EmptyTranscript
    /\ isBusy = FALSE
    /\ isModelLoading = FALSE
    /\ progressItems = <<>>
    /\ pending = 0
    /\ hasAudio \in BOOLEAN
    /\ audioElement = hasAudio
    /\ audTime = 0
    /\ audPaused = TRUE
    /\ audRate = InitSpeed
    /\ audDur \in IF hasAudio THEN {0, MaxTime} ELSE {0}
    /\ currentTime = 0
    /\ editingIndex = NULL
    /\ editText = ""
    /\ playbackSpeed = InitSpeed
    /\ audioDuration = audDur
    /\ audioRef = hasAudio
    /\ audioRefStale = FALSE
    /\ detachedListeners = FALSE
    /\ mounted = TRUE
    /\ audioData = (IF hasAudio THEN FileAudio ELSE NoAudio)
    /\ audioDownloadUrl = NULL
    /\ downloads = {}
    /\ recordings = 0
    /\ progress = NULL
    /\ lsnPlaybackSpeed = InitSpeed
    /\ lsnAudioDuration = 0


\* ------------------------------------------------------ shared sub-steps
\* useTranscriber.seek, reached through App.handleSeek:
\*   if (audioElement) { audioElement.currentTime = time; audioElement.play(); }
seek(time) ==
    IF audioElement
    THEN audTime' = time /\ audPaused' = FALSE
    ELSE UNCHANGED <<audTime, audPaused>>

\* The keydown effect, deps [transcribedData, currentTime, editingIndex]:
\* when one of them changed, the listener is replaced by the handleKeyDown
\* of the new render, which closes over that render's playbackSpeed and
\* audioDuration; otherwise the listener of the earlier render stays.
KeydownEffect(depsChanged) ==
    IF depsChanged
    THEN lsnPlaybackSpeed' = playbackSpeed' /\ lsnAudioDuration' = audioDuration'
    ELSE UNCHANGED <<lsnPlaybackSpeed, lsnAudioDuration>>

\* AudioManager's effect, deps [transcriber]: every new transcriber object
\* (new transcript, isBusy, ...) hands the current <audio> element, or
\* null, to the hook.
ConnectAudioElement == audioElement' = hasAudio'

\* Mutant of MergeChunks: an edited chunk keeps the text the user gave it.
MergeChunksKeepEditedText(prev, chunks) ==
    [i \in 1..Len(chunks) |->
        [text |-> IF PrevEdited(prev, i - 1) THEN Chunk(prev, i - 1).text
                  ELSE chunks[i].text,
         timestamp |-> chunks[i].timestamp,
         isEdited |-> PrevEdited(prev, i - 1)]]

\* Mutant of MergeChunks: the merge takes the engine's chunks as they are
\* and marks none edited.
MergeChunksDropEdited(prev, chunks) ==
    [i \in 1..Len(chunks) |->
        [text |-> chunks[i].text, timestamp |-> chunks[i].timestamp,
         isEdited |-> FALSE]]

\* The engine's chunks merged over the previous transcript:
\*   chunks.map((chunk, i) => ({ text, timestamp,
\*       isEdited: prevTranscript?.chunks[i]?.isEdited || false }))
MergeChunks(prev, chunks) ==
    [i \in 1..Len(chunks) |->
        [text |-> chunks[i].text, timestamp |-> chunks[i].timestamp,
         isEdited |-> PrevEdited(prev, i - 1)]]

\* Mutant of MergeMessage: the message's text is appended to the text so
\* far instead of replacing it.
MergeMessageAppendText(prev, m, busy) ==
    [defined |-> TRUE, isBusy |-> busy, isModelLoading |-> FALSE,
     text |-> (IF prev.defined THEN prev.text ELSE "") \o m.text,
     chunks |-> MergeChunks(prev, m.chunks), error |-> NoError]

\* The transcript that case "update" (busy) and case "complete" (not busy)
\* set; neither carries an error.
MergeMessage(prev, m, busy) ==
    [defined |-> TRUE, isBusy |-> busy, isModelLoading |-> FALSE,
     text |-> m.text, chunks |-> MergeChunks(prev, m.chunks), error |-> NoError]

\* Mutant of MergeError: the error replaces the transcript by an empty one.
MergeErrorDropsTimeline(prev) ==
    [defined |-> TRUE, isBusy |-> FALSE, isModelLoading |-> FALSE,
     text |-> "", chunks |-> <<>>, error |-> EngineError]

\* case "error": { ...(prev || { chunks: [], text: '' }), isBusy: false,
\*                 isModelLoading: false, error }
MergeError(prev) ==
    [defined |-> TRUE, isBusy |-> FALSE, isModelLoading |-> FALSE,
     text |-> IF prev.defined THEN prev.text ELSE "",
     chunks |-> IF prev.defined THEN prev.chunks ELSE <<>>,
     error |-> EngineError]

\* handleEditKeyDown's commit on the transcript object (Object.assign):
\* chunk editingIndex gets the draft and isEdited, text is re-joined.
\* (CommitChunksNoFlag is its mutant that leaves isEdited as it was.)
CommitChunksNoFlag(chunks, i, draft) ==
    [chunks EXCEPT ![i + 1] = [@ EXCEPT !.text = draft]]

CommitChunks(chunks, i, draft) ==
    [chunks EXCEPT ![i + 1] = [@ EXCEPT !.text = draft, !.isEdited = TRUE]]

\* Mutant of CommitEdit: the commit also marks the timeline as not busy.
CommitEditMarksIdle(td, i, draft) ==
    [td EXCEPT !.chunks = CommitChunks(td.chunks, i, draft),
               !.text = Join(CommitChunks(td.chunks, i, draft)),
               !.isBusy = FALSE]

CommitEdit(td, i, draft) ==
    [td EXCEPT !.chunks = CommitChunks(td.chunks, i, draft),
               !.text = Join(CommitChunks(td.chunks, i, draft))]

\* The edit control (textarea) is rendered for chunk editingIndex.
EditControlShown == HasChunk(transcript, editingIndex)

\* ------------------------------------------------------- useTranscriber
\* Mutant of onInputChange: the segments and the text stay.
onInputChangeKeepsTimeline ==
    /\ transcript' = [transcript EXCEPT !.defined = TRUE, !.isBusy = FALSE,
                                        !.isModelLoading = FALSE,
                                        !.error = NoError]
    /\ UNCHANGED <<isBusy, isModelLoading, progressItems, pending>>

\* transcriber.onInputChange(): setTranscript of a new, empty transcript
\* object.  The new object makes a new transcriber object, which re-runs
\* AudioManager's effect and the keydown effect (transcribedData is one of
\* its deps).
onInputChange ==
    /\ transcript' = EmptyTranscript
    /\ UNCHANGED <<isBusy, isModelLoading, progressItems, pending>>

\* The <audio> element after a render of AudioManager: AudioPlayer is
\* rendered only while audioData is set.  An element that appears, or
\* whose source changes, starts at position 0, paused, without metadata, at
\* the default playback rate.  An element that leaves the document leaves
\* Transcript's audioRef.current and the hook's audioElement pointing at a
\* detached element, which no longer is the transport.
AudioElementLoads ==
    /\ hasAudio' = TRUE
    /\ audTime' = 0 /\ audPaused' = TRUE /\ audDur' = 0 /\ audRate' = InitSpeed
    /\ UNCHANGED <<audioRef, audioRefStale, detachedListeners, mounted>>

AudioElementRemoved ==
    /\ hasAudio' = FALSE
    /\ audTime' = 0 /\ audPaused' = TRUE /\ audDur' = 0 /\ audRate' = InitSpeed
    /\ audioRef' = FALSE
    /\ audioRefStale' = (audioRef \/ audioRefStale)
    /\ detachedListeners' = (audioRef \/ detachedListeners)
    /\ UNCHANGED mounted

\* onFileUpdate: transcriber.onInputChange(), then setAudioData(...).
FileSelected ==
    /\ onInputChange
    /\ audioData' = FileAudio
    /\ UNCHANGED <<audioDownloadUrl, downloads, recordings, progress>>
    /\ AudioElementLoads
    /\ ConnectAudioElement
    /\ UNCHANGED <<currentTime, editingIndex, editText, playbackSpeed,
                   audioDuration>>
    /\ KeydownEffect(TRUE)

\* TranscribeButton -> transcriber.start(audioData.buffer) (postRequest)
Start ==
    /\ hasAudio
    /\ pending < MaxPending
    /\ transcript' = Undefined
    /\ isBusy' = TRUE
    /\ UNCHANGED <<isModelLoading, progressItems>>
    /\ pending' = pending + 1
    /\ UNCHANGED audioVars
    /\ ConnectAudioElement
    /\ UNCHANGED <<currentTime, editingIndex, editText, playbackSpeed,
                   audioDuration, audioRef, audioRefStale, detachedListeners, mounted>>
    /\ KeydownEffect(TRUE)

\* worker message, case "update"
Update(m) ==
    /\ pending > 0
    /\ transcript' = MergeMessage(transcript, m, TRUE)
    /\ UNCHANGED <<isBusy, isModelLoading, progressItems, pending>>
    /\ UNCHANGED audioVars
    /\ ConnectAudioElement
    /\ UNCHANGED <<currentTime, editingIndex, editText, playbackSpeed,
                   audioDuration, audioRef, audioRefStale, detachedListeners, mounted>>
    /\ KeydownEffect(TRUE)

\* worker message, case "complete"
Complete(m) ==
    /\ pending > 0
    /\ transcript' = MergeMessage(transcript, m, FALSE)
    /\ isBusy' = FALSE
    /\ UNCHANGED <<isModelLoading, progressItems>>
    /\ pending' = pending - 1
    /\ UNCHANGED audioVars
    /\ ConnectAudioElement
    /\ UNCHANGED <<currentTime, editingIndex, editText, playbackSpeed,
                   audioDuration, audioRef, audioRefStale, detachedListeners, mounted>>
    /\ KeydownEffect(TRUE)

\* worker message, case "error"
ErrorMessage ==
    /\ pending > 0
    /\ transcript' = MergeError(transcript)
    /\ isBusy' = FALSE
    /\ UNCHANGED <<isModelLoading, progressItems>>
    /\ pending' = pending - 1
    /\ UNCHANGED audioVars
    /\ ConnectAudioElement
    /\ UNCHANGED <<currentTime, editingIndex, editText, playbackSpeed,
                   audioDuration, audioRef, audioRefStale, detachedListeners, mounted>>
    /\ KeydownEffect(TRUE)

\* worker message, case "initiate": a model file starts to load
\* (setIsModelLoading(true)).  The transcript is not touched, so the
\* keydown listener stays; the new transcriber object re-runs
\* AudioManager's effect.
Initiate(f) ==
    /\ pending > 0
    /\ Len(progressItems) < MaxItems
    /\ isModelLoading' = TRUE
    /\ progressItems' = Append(progressItems, ProgressItem(f, NULL))
    /\ UNCHANGED <<transcript, isBusy, pending>>
    /\ UNCHANGED audioVars
    /\ ConnectAudioElement
    /\ UNCHANGED viewVars

\* worker message, case "ready": setIsModelLoading(false)
Ready ==
    /\ pending > 0
    /\ isModelLoading' = FALSE
    /\ UNCHANGED <<transcript, isBusy, progressItems, pending>>
    /\ UNCHANGED audioVars
    /\ ConnectAudioElement
    /\ UNCHANGED viewVars

\* Mutant of UpdateProgress: every item gets the progress.
UpdateProgressOfAll(items, f, p) ==
    [i \in 1..Len(items) |-> ProgressItem(items[i].file, p)]

\* prev.map(item => item.file === message.file
\*                  ? { ...item, progress: message.progress } : item)
UpdateProgress(items, f, p) ==
    [i \in 1..Len(items) |->
        IF items[i].file = f THEN ProgressItem(items[i].file, p) ELSE items[i]]

\* prev.filter(item => item.file !== message.file)
RECURSIVE RemoveFile(_, _)
RemoveFile(items, f) ==
    IF Len(items) = 0 THEN <<>>
    ELSE IF items[1].file = f THEN RemoveFile(Tail(items), f)
    ELSE <<items[1]>> \o RemoveFile(Tail(items), f)

\* worker message, case "progress"; map makes a new list, hence a new
\* transcriber object.
Progress(f, p) ==
    /\ pending > 0
    /\ progressItems' = UpdateProgress(progressItems, f, p)
    /\ UNCHANGED <<transcript, isBusy, isModelLoading, pending>>
    /\ UNCHANGED audioVars
    /\ ConnectAudioElement
    /\ UNCHANGED viewVars

\* worker message, case "done"
Done(f) ==
    /\ pending > 0
    /\ progressItems' = RemoveFile(progressItems, f)
    /\ UNCHANGED <<transcript, isBusy, isModelLoading, pending>>
    /\ UNCHANGED audioVars
    /\ ConnectAudioElement
    /\ UNCHANGED viewVars

\* ----------------------------------------------------------- AudioManager
\* The cleanup of the URL effect: requestAbortController.abort() for the
\* download of the URL that audioDownloadUrl held.
AbortDownloads ==
    {IF d.url = audioDownloadUrl
     THEN Download(d.url, TRUE, d.stage, d.prior) ELSE d : d \in downloads}

InFlight == Cardinality(downloads) + recordings

\* onUrlUpdate(u): transcriber.onInputChange(); setAudioDownloadUrl(u).  A
\* changed audioDownloadUrl runs the URL effect: the cleanup of the earlier
\* run, then downloadAudioFromUrl up to its await: setAudioData(undefined),
\* setProgress(0), axios.get.  AudioManager's effect ran when the element
\* was still in the document, so the hook keeps the detached element.
UrlSelected(u) ==
    /\ onInputChange
    /\ IF u # audioDownloadUrl
       THEN /\ InFlight < MaxDownloads
            /\ audioDownloadUrl' = u
            /\ downloads' = AbortDownloads \cup {Download(u, FALSE, "fetch", transcript)}
            /\ audioData' = NoAudio
            /\ progress' = 0
            /\ AudioElementRemoved
            /\ audioElement' = FALSE
            /\ UNCHANGED recordings
       ELSE /\ UNCHANGED <<mgrVars, hasAudio, audTime, audPaused, audRate, audDur>>
            /\ UNCHANGED <<audioRef, audioRefStale, detachedListeners, mounted>>
            /\ ConnectAudioElement
    /\ UNCHANGED <<currentTime, editingIndex, editText, playbackSpeed,
                   audioDuration>>
    /\ KeydownEffect(TRUE)

\* axios.get resolves: setAudioFromDownload(data, mimeType) is called and
\* not awaited, so the finally block runs at once: setProgress(undefined).
DownloadFetched(d) ==
    /\ d \in downloads
    /\ d.stage = "fetch"
    /\ ~d.aborted
    /\ downloads' = (downloads \ {d}) \cup {Download(d.url, d.aborted, "decode", d.prior)}
    /\ progress' = NULL
    /\ UNCHANGED <<audioData, audioDownloadUrl, recordings>>
    /\ UNCHANGED <<hasAudio, audTime, audPaused, audRate, audDur>>
    /\ UNCHANGED hookVars
    /\ UNCHANGED viewVars

\* axios.get rejects, aborted or for a network error: the catch block logs,
\* the finally block runs setProgress(undefined).
DownloadFailed(d) ==
    /\ d \in downloads
    /\ d.stage = "fetch"
    /\ downloads' = downloads \ {d}
    /\ progress' = NULL
    /\ UNCHANGED <<audioData, audioDownloadUrl, recordings>>
    /\ UNCHANGED <<hasAudio, audTime, audPaused, audRate, audDur>>
    /\ UNCHANGED hookVars
    /\ UNCHANGED viewVars

\* setAudioFromDownload after its await of decodeAudioData:
\* setAudioData({..., source: AudioSource.URL}).  The transcriber object
\* does not change, so AudioManager's effect does not run.
DownloadDecoded(d) ==
    /\ d \in downloads
    /\ d.stage = "decode"
    /\ downloads' = downloads \ {d}
    /\ audioData' = UrlAudio(d.url)
    /\ UNCHANGED <<audioDownloadUrl, recordings, progress>>
    /\ AudioElementLoads
    /\ UNCHANGED hookVars
    /\ UNCHANGED <<currentTime, editingIndex, editText, playbackSpeed,
                   audioDuration, lsnPlaybackSpeed, lsnAudioDuration>>

\* RecordTile setAudioData: transcriber.onInputChange();
\* setAudioFromRecording(blob) up to the FileReader's read: resetAudio(),
\* setProgress(0).  resetAudio clears audioDownloadUrl, which runs the
\* cleanup of the URL effect.
RecordingSelected ==
    /\ onInputChange
    /\ InFlight < MaxDownloads
    /\ audioData' = NoAudio
    /\ audioDownloadUrl' = NULL
    /\ downloads' = AbortDownloads
    /\ recordings' = recordings + 1
    /\ progress' = 0
    /\ AudioElementRemoved
    /\ audioElement' = FALSE
    /\ UNCHANGED <<currentTime, editingIndex, editText, playbackSpeed,
                   audioDuration>>
    /\ KeydownEffect(TRUE)

\* fileReader.onloadend after its await of decodeAudioData:
\* setProgress(undefined); setAudioData({..., source: RECORDING})
RecordingLoaded ==
    /\ recordings > 0
    /\ recordings' = recordings - 1
    /\ progress' = NULL
    /\ audioData' = RecordingAudio
    /\ UNCHANGED <<audioDownloadUrl, downloads>>
    /\ AudioElementLoads
    /\ UNCHANGED hookVars
    /\ UNCHANGED <<currentTime, editingIndex, editText, playbackSpeed,
                   audioDuration, lsnPlaybackSpeed, lsnAudioDuration>>

\* decodeAudioData rejects in setAudioFromDownload: the promise is neither
\* awaited nor caught, no state is set.
DownloadDecodeFailed(d) ==
    /\ d \in downloads
    /\ d.stage = "decode"
    /\ downloads' = downloads \ {d}
    /\ UNCHANGED <<audioData, audioDownloadUrl, recordings, progress>>
    /\ UNCHANGED <<hasAudio, audTime, audPaused, audRate, audDur>>
    /\ UNCHANGED hookVars
    /\ UNCHANGED viewVars

\* decodeAudioData rejects in fileReader.onloadend, before
\* setProgress(undefined): no state is set.
RecordingDecodeFailed ==
    /\ recordings > 0
    /\ recordings' = recordings - 1
    /\ UNCHANGED <<audioData, audioDownloadUrl, downloads, progress>>
    /\ UNCHANGED <<hasAudio, audTime, audPaused, audRate, audDur>>
    /\ UNCHANGED hookVars
    /\ UNCHANGED viewVars

\* --------------------------------------------------- the <audio> element
\* The position of the element moves: playback, or the element's own
\* controls.  With metadata the position stays within the duration.
Playback(t) ==
    /\ hasAudio
    /\ t # audTime
    /\ audDur > 0 => t <= audDur
    /\ audTime' = t
    /\ UNCHANGED <<mgrVars, hasAudio, audPaused, audRate, audDur>>
    /\ UNCHANGED hookVars
    /\ UNCHANGED viewVars

\* updateTime, the listener of "timeupdate" and "seeking":
\*   handleTimeUpdate(audio.currentTime)
updateTime ==
    /\ audioRef
    /\ currentTime' = audTime
    /\ UNCHANGED <<editingIndex, editText, playbackSpeed, audioDuration, audioRef, audioRefStale, detachedListeners, mounted>>
    /\ KeydownEffect(currentTime' # currentTime)
    /\ UNCHANGED hookVars
    /\ UNCHANGED audioVars

\* The element reports its metadata; updateDuration is the listener of
\* "loadedmetadata": setAudioDuration(audio.duration);
\* setCurrentTime(audio.currentTime)
updateDuration ==
    /\ hasAudio
    /\ audDur = 0
    /\ audDur' = MaxTime
    /\ UNCHANGED <<mgrVars, hasAudio, audTime, audPaused, audRate>>
    /\ IF audioRef
       THEN audioDuration' = audDur' /\ currentTime' = audTime
       ELSE UNCHANGED <<audioDuration, currentTime>>
    /\ UNCHANGED <<editingIndex, editText, playbackSpeed, audioRef, audioRefStale, detachedListeners, mounted>>
    /\ KeydownEffect(currentTime' # currentTime)
    /\ UNCHANGED hookVars

\* ------------------------------------------------------------ Transcript
\* handleUtteranceClick(chunk.timestamp[0]) on the span of chunk i, which
\* is rendered unless chunk i is the one in the edit control.
handleUtteranceClick(i) ==
    /\ HasChunk(transcript, i)
    /\ i # editingIndex
    /\ seek(Chunk(transcript, i).timestamp[1])
    /\ currentTime' = Chunk(transcript, i).timestamp[1]
    /\ UNCHANGED <<mgrVars, hasAudio, audRate, audDur>>
    /\ UNCHANGED <<editingIndex, editText, playbackSpeed, audioDuration, audioRef, audioRefStale, detachedListeners, mounted>>
    /\ KeydownEffect(currentTime' # currentTime)
    /\ UNCHANGED hookVars

Keys == {" ", "ArrowRight", "ArrowLeft", "Enter", "Escape", "ArrowUp", "ArrowDown", "a"}

\* JavaScript's !x for x : number | null
Falsy(x) == x = NULL \/ x = 0

\* Mutant of SpeedUp: no upper clamp.
SpeedUpNoClamp(speed) == speed + SpeedStep

\* Math.min(4, playbackSpeed + 0.25) and Math.max(0.25, playbackSpeed - 0.25)
SpeedUp(speed) == Min(MaxSpeed, speed + SpeedStep)
SpeedDown(speed) == Max(MinSpeed, speed - SpeedStep)

\* case " ": play or pause audioRef.current
KeySpace ==
    /\ IF audioRef THEN audPaused' = ~audPaused ELSE UNCHANGED audPaused
    /\ UNCHANGED <<mgrVars, hasAudio, audTime, audRate, audDur>>
    /\ UNCHANGED hookVars
    /\ UNCHANGED viewVars

\* case "ArrowRight" / "ArrowLeft": onSeek of the neighbour's start
NextIndex(idx) == idx + 1
PrevIndex(idx) == idx - 1

KeyArrowRight(idx) ==
    /\ IF idx < Len(transcript.chunks) - 1
       THEN seek(Chunk(transcript, NextIndex(idx)).timestamp[1])
       ELSE UNCHANGED <<audTime, audPaused>>
    /\ UNCHANGED <<mgrVars, hasAudio, audRate, audDur>>
    /\ UNCHANGED hookVars
    /\ UNCHANGED viewVars

KeyArrowLeft(idx) ==
    /\ IF idx > 0
       THEN seek(Chunk(transcript, PrevIndex(idx)).timestamp[1])
       ELSE UNCHANGED <<audTime, audPaused>>
    /\ UNCHANGED <<mgrVars, hasAudio, audRate, audDur>>
    /\ UNCHANGED hookVars
    /\ UNCHANGED viewVars

\* case "Enter": if (!editingIndex) { setEditingIndex(currentIndex);
\*                                    setEditText(chunks[currentIndex].text) }
KeyEnter(idx) ==
    /\ IF Falsy(editingIndex)
       THEN /\ editingIndex' = idx
            /\ editText' = Chunk(transcript, idx).text
       ELSE UNCHANGED <<editingIndex, editText>>
    /\ UNCHANGED <<currentTime, playbackSpeed, audioDuration, audioRef, audioRefStale, detachedListeners, mounted>>
    /\ KeydownEffect(editingIndex' # editingIndex)
    /\ UNCHANGED hookVars
    /\ UNCHANGED audioVars

\* case "Escape": if (editingIndex !== null) setEditingIndex(null)
KeyEscape ==
    /\ editingIndex' = NULL
    /\ UNCHANGED <<currentTime, editText, playbackSpeed, audioDuration, audioRef, audioRefStale, detachedListeners, mounted>>
    /\ KeydownEffect(editingIndex' # editingIndex)
    /\ UNCHANGED hookVars
    /\ UNCHANGED audioVars

\* Mutant of RemoveListeners: the cleanup leaves the listeners attached.
RemoveListenersKeeps(attached) == attached

\* The cleanup of the time-update effect: removeEventListener of
\* updateTime and updateDuration on the element the effect subscribed to.
\* attached: that element had the listeners.
RemoveListeners(attached) == FALSE

\* A re-run of the time-update effect with the new playbackSpeed: the
\* cleanup of the earlier run, then, if the document holds an <audio>
\* element, audioRef.current = audio, audio.playbackRate = playbackSpeed,
\* setCurrentTime, setAudioDuration and the three addEventListener.
TimeUpdateEffect(speed) ==
    /\ detachedListeners' = RemoveListeners(detachedListeners)
    /\ IF hasAudio
       THEN /\ audioRef' = TRUE /\ audioRefStale' = FALSE
            /\ audRate' = speed
            /\ currentTime' = audTime /\ audioDuration' = audDur
       ELSE /\ audioRef' = RemoveListeners(audioRef)
            /\ UNCHANGED <<audioRefStale, audRate, currentTime, audioDuration>>
    /\ UNCHANGED mounted

\* Transcript unmounts: the cleanups of its effects run.
Teardown ==
    /\ mounted
    /\ mounted' = FALSE
    /\ audioRef' = RemoveListeners(audioRef)
    /\ detachedListeners' = RemoveListeners(detachedListeners)
    /\ UNCHANGED <<currentTime, editingIndex, editText, playbackSpeed,
                   audioDuration, audioRefStale, lsnPlaybackSpeed, lsnAudioDuration>>
    /\ UNCHANGED hookVars
    /\ UNCHANGED audioVars

\* case "ArrowUp" / "ArrowDown" with the new speed: written to
\* audioRef.current.playbackRate and to playbackSpeed.  A changed
\* playbackSpeed re-runs the time-update effect (deps [playbackSpeed]),
\* which sets audio.playbackRate, currentTime and audioDuration from the
\* element in the document and makes it audioRef.current.  A rate written
\* to an element that has left the document is not the transport's.
KeySpeed(newSpeed) ==
    IF audioRef \/ audioRefStale
    THEN /\ playbackSpeed' = newSpeed
         /\ IF newSpeed # playbackSpeed
            THEN TimeUpdateEffect(newSpeed)
            ELSE /\ UNCHANGED <<currentTime, audioDuration, audioRef, audioRefStale, detachedListeners, mounted>>
                 /\ audRate' = (IF audioRef THEN newSpeed ELSE audRate)
         /\ UNCHANGED <<editingIndex, editText>>
         /\ KeydownEffect(currentTime' # currentTime)
         /\ UNCHANGED <<mgrVars, hasAudio, audTime, audPaused, audDur>>
         /\ UNCHANGED hookVars
    ELSE UNCHANGED vars

\* Mutant of CurrentIndex: the last chunk when no chunk matches.
CurrentIndexDefaultsToLast ==
    IF getCurrentUtteranceIndex(transcript, currentTime, lsnAudioDuration) = NONE
    THEN Len(transcript.chunks) - 1
    ELSE getCurrentUtteranceIndex(transcript, currentTime, lsnAudioDuration)

\* const currentIndex = getCurrentUtteranceIndex(), in the listener's
\* render: its transcript and currentTime are the current ones (they are
\* deps of the keydown effect), its audioDuration is the listener's.
CurrentIndex == getCurrentUtteranceIndex(transcript, currentTime, lsnAudioDuration)

\* Mutant of KeyIgnored: the guard on editingIndex is missing.
KeyIgnoredNoEditGuard(inInput) ==
    \/ inInput
    \/ ~(transcript.defined /\ Len(transcript.chunks) > 0)
    \/ CurrentIndex = NONE

\* The guards of handleKeyDown before its switch.
KeyIgnored(inInput) ==
    \/ editingIndex # NULL
    \/ inInput
    \/ ~(transcript.defined /\ Len(transcript.chunks) > 0)
    \/ CurrentIndex = NONE

\* handleKeyDown, the window's keydown listener; inInput: the event's
\* target is an input or a textarea.
handleKeyDown(key, inInput) ==
    IF KeyIgnored(inInput) THEN UNCHANGED vars
    ELSE CASE key = " " -> KeySpace
           [] key = "ArrowRight" -> KeyArrowRight(CurrentIndex)
           [] key = "ArrowLeft" -> KeyArrowLeft(CurrentIndex)
           [] key = "Enter" -> KeyEnter(CurrentIndex)
           [] key = "Escape" ->
                IF editingIndex # NULL THEN KeyEscape ELSE UNCHANGED vars
           [] key = "ArrowUp" -> KeySpeed(SpeedUp(lsnPlaybackSpeed))
           [] key = "ArrowDown" -> KeySpeed(SpeedDown(lsnPlaybackSpeed))
           [] OTHER -> UNCHANGED vars

\* onChange of the edit control: setEditText(e.target.value)
EditChange(text) ==
    /\ EditControlShown
    /\ editText' = text
    /\ UNCHANGED <<currentTime, editingIndex, playbackSpeed, audioDuration,
                   audioRef, audioRefStale, detachedListeners, mounted,
                   lsnPlaybackSpeed, lsnAudioDuration>>
    /\ UNCHANGED hookVars
    /\ UNCHANGED audioVars

\* handleEditKeyDown, Enter without shift: the commit, into the transcript
\* object in place (the hook's state object is the same object, and no
\* transcriber is re-made), then setEditingIndex(null).
CommitKey ==
    /\ transcript' = CommitEdit(transcript, editingIndex, editText)
    /\ editingIndex' = NULL
    /\ UNCHANGED <<isBusy, isModelLoading, progressItems, audioElement, pending>>
    /\ UNCHANGED <<currentTime, editText, playbackSpeed, audioDuration, audioRef, audioRefStale, detachedListeners, mounted>>
    /\ KeydownEffect(TRUE)
    /\ UNCHANGED audioVars

\* Mutant of CancelKey: the cancel writes the draft like a commit.
CancelKeyCommits == CommitKey

\* handleEditKeyDown, Escape: setEditingIndex(null)
CancelKey ==
    /\ editingIndex' = NULL
    /\ UNCHANGED hookVars
    /\ UNCHANGED <<currentTime, editText, playbackSpeed, audioDuration, audioRef, audioRefStale, detachedListeners, mounted>>
    /\ KeydownEffect(TRUE)
    /\ UNCHANGED audioVars

\* handleEditKeyDown, the edit control's onKeyDown.  Commit and cancel stop
\* the event; every other key goes on to the window's listener, its target
\* being the textarea.
handleEditKeyDown(key, shiftKey) ==
    /\ EditControlShown
    /\ IF key = "Enter" /\ ~shiftKey THEN CommitKey
       ELSE IF key = "Escape" THEN CancelKey
       ELSE handleKeyDown(key, TRUE)

\* -------------------------------------------------------- specifications
\* Every specification runs the handlers above; they differ in the inputs
\* they feed them (which keys are pressed, which messages the engine
\* sends), so that each stays small enough to explore in full.

\* Engine messages whose chunks carry the text "a" and either no end or an
\* end one second after their start.
EditMsgs ==
    {m \in EngineMsgs : \A i \in 1..Len(m.chunks) :
        /\ m.chunks[i].text = "a"
        /\ m.chunks[i].timestamp[2] \in {NULL, m.chunks[i].timestamp[1] + 1}}

\* Those of them whose chunks are all open-ended.
KeyMsgs ==
    {m \in EditMsgs : \A i \in 1..Len(m.chunks) : m.chunks[i].timestamp[2] = NULL}

EditKeys == {"Enter", "Escape", "a"}
NavKeys == {" ", "ArrowRight", "ArrowLeft", "Enter", "Escape", "a"}
RateKeys == {"ArrowUp", "ArrowDown"}

\* Spec: the transcription session and the edit session.
Next ==
    \/ FileSelected
    \/ Start
    \/ \E m \in EditMsgs : Update(m)
    \/ \E m \in EditMsgs : Complete(m)
    \/ ErrorMessage
    \/ \E i \in 0..(MaxChunks - 1) : handleUtteranceClick(i)
    \/ \E key \in EditKeys, inInput \in BOOLEAN : handleKeyDown(key, inInput)
    \/ \E text \in Drafts : EditChange(text)
    \/ \E key \in EditKeys, shiftKey \in BOOLEAN : handleEditKeyDown(key, shiftKey)

Spec == Init /\ [][Next]_vars

\* SpecKeys: the navigation keys and the transport.
NextKeys ==
    \/ FileSelected
    \/ Start
    \/ \E m \in EditMsgs : Update(m)
    \/ \E m \in EditMsgs : Complete(m)
    \/ ErrorMessage
    \/ \E t \in Times : Playback(t)
    \/ updateTime
    \/ updateDuration
    \/ \E i \in 0..(MaxChunks - 1) : handleUtteranceClick(i)
    \/ \E key \in NavKeys, inInput \in BOOLEAN : handleKeyDown(key, inInput)
    \/ \E key \in NavKeys, shiftKey \in BOOLEAN : handleEditKeyDown(key, shiftKey)

SpecKeys == Init /\ [][NextKeys]_vars

\* SpecRate: the playback-rate keys and the transport.
NextRate ==
    \/ FileSelected
    \/ Start
    \/ \E m \in KeyMsgs : Update(m)
    \/ \E m \in KeyMsgs : Complete(m)
    \/ ErrorMessage
    \/ \E t \in Times : Playback(t)
    \/ updateTime
    \/ updateDuration
    \/ \E i \in 0..(MaxChunks - 1) : handleUtteranceClick(i)
    \/ \E key \in RateKeys, inInput \in BOOLEAN : handleKeyDown(key, inInput)

SpecRate == Init /\ [][NextRate]_vars

\* SpecEngine: the hook under every message of the recognition worker.
NextEngine ==
    \/ FileSelected
    \/ Start
    \/ \E f \in Files : Initiate(f)
    \/ \E f \in Files, p \in ProgressValues : Progress(f, p)
    \/ \E f \in Files : Done(f)
    \/ Ready
    \/ \E m \in KeyMsgs : Update(m)
    \/ \E m \in KeyMsgs : Complete(m)
    \/ ErrorMessage

SpecEngine == Init /\ [][NextEngine]_vars

\* SpecAudio: AudioManager's sources of audio and the <audio> element that
\* Transcript tracks.
NextAudio ==
    \/ FileSelected
    \/ \E u \in Urls : UrlSelected(u)
    \/ \E d \in downloads : DownloadFetched(d)
    \/ \E d \in downloads : DownloadFailed(d)
    \/ \E d \in downloads : DownloadDecoded(d)
    \/ RecordingSelected
    \/ RecordingLoaded
    \/ \E t \in Times : Playback(t)
    \/ updateTime
    \/ updateDuration

SpecAudio == Init /\ [][NextAudio]_vars

\* SpecDecode: a URL or a recording is chosen next to a transcription, and
\* its decoding fails.
NextDecode ==
    \/ Start
    \/ \E m \in KeyMsgs : Update(m)
    \/ \E u \in Urls : UrlSelected(u)
    \/ \E d \in downloads : DownloadFetched(d)
    \/ \E d \in downloads : DownloadDecodeFailed(d)
    \/ RecordingSelected
    \/ RecordingDecodeFailed

SpecDecode == Init /\ [][NextDecode]_vars

\* SpecTracker: the subscription of Transcript's time-update effect while
\* <audio> elements come and go, the playback speed changes and Transcript
\* unmounts.  An unmounted component takes no events.
NextTracker ==
    \/ FileSelected
    \/ RecordingSelected
    \/ RecordingLoaded
    \/ Start
    \/ \E m \in KeyMsgs : Update(m)
    \/ \E t \in Times : Playback(t)
    \/ mounted /\ updateTime
    \/ updateDuration
    \/ \E key \in RateKeys : mounted /\ handleKeyDown(key, FALSE)
    \/ Teardown

SpecTracker == Init /\ [][NextTracker]_vars

\* SpecLookup: the active-segment lookup as a function of its inputs.  The
\* view shows any timeline the engine can have produced, streaming or
\* complete, over an audio of any duration, at any playback position; the
\* position then moves.
LookupMsgs ==
    {m \in EngineMsgs : \A i \in 1..Len(m.chunks) : m.chunks[i].text = "a"}

InitLookup ==
    /\ \E m \in LookupMsgs, busy \in BOOLEAN :
          /\ transcript = MergeMessage(EmptyTranscript, m, busy)
          /\ isBusy = busy
          /\ isModelLoading = FALSE
          /\ progressItems = <<>>
          /\ pending = IF busy THEN 1 ELSE 0
    /\ hasAudio = TRUE
    /\ audioElement = TRUE
    /\ audTime \in Times
    /\ audPaused = FALSE
    /\ audRate = InitSpeed
    /\ audDur \in Times
    /\ audDur > 0 => audTime <= audDur
    /\ currentTime = audTime
    /\ editingIndex = NULL
    /\ editText = ""
    /\ playbackSpeed = InitSpeed
    /\ audioDuration = audDur
    /\ audioRef = TRUE
    /\ audioRefStale = FALSE
    /\ detachedListeners = FALSE
    /\ mounted = TRUE
    /\ audioData = FileAudio
    /\ audioDownloadUrl = NULL
    /\ downloads = {}
    /\ recordings = 0
    /\ progress = NULL
    /\ lsnPlaybackSpeed = InitSpeed
    /\ lsnAudioDuration = audDur

NextLookup ==
    \/ \E t \in Times : Playback(t)
    \/ updateTime
    \/ \E i \in 0..(MaxChunks - 1) : handleUtteranceClick(i)

SpecLookup == InitLookup /\ [][NextLookup]_vars


\* ================================================================ claims

\* ---- C1 --------------------------------------------------------------
\* The range the specification gives segment i: from its start to the next
\* segment's start, or for the last segment to its own end if present,
\* else to the audio duration.
EffectiveEnd(td, i, dur) ==
    IF i < Len(td.chunks) - 1 THEN Chunk(td, i + 1).timestamp[1]
    ELSE IF Chunk(td, i).timestamp[2] # NULL THEN Chunk(td, i).timestamp[2]
    ELSE dur

InEffectiveRange(td, i, ct, dur) ==
    ct >= Chunk(td, i).timestamp[1] /\ ct < EffectiveEnd(td, i, dur)

\* activeSegmentIndex of the specification (4.1): while streaming at or
\* after the last segment's start, the last index; otherwise the index
\* whose effective range holds currentTime, or none.
activeSegmentIndex(td, ct, dur) ==
    IF ~td.defined \/ Len(td.chunks) = 0 THEN NONE
    ELSE IF td.isBusy /\ ct >= Chunk(td, Len(td.chunks) - 1).timestamp[1]
         THEN Len(td.chunks) - 1
    ELSE LET inRange == {i \in 0..(Len(td.chunks) - 1) : InEffectiveRange(td, i, ct, dur)}
         IN IF inRange = {} THEN NONE
            ELSE CHOOSE i \in inRange : \A j \in inRange : i <= j

\* The active segment of the view: that of its transcript, currentTime and
\* audioDuration.
ActiveIndex == activeSegmentIndex(transcript, currentTime, audioDuration)

\* C1: for a timeline that is not streaming, the lookup returns i exactly
\* when currentTime lies in [start_i, effectiveEnd_i); at most one index
\* qualifies; and it returns -1 exactly when no index qualifies (or the
\* timeline is empty).
C1_ActiveSegmentDeterminism ==
    (transcript.defined /\ ~transcript.isBusy) =>
        LET n == Len(transcript.chunks)
            idx == getCurrentUtteranceIndex(transcript, currentTime, audioDuration)
            inRange == {i \in 0..(n - 1) :
                           InEffectiveRange(transcript, i, currentTime, audioDuration)}
        IN /\ \A i \in 0..(n - 1) : (idx = i) <=> (i \in inRange)
           /\ Cardinality(inRange) <= 1
           /\ (idx = NONE) <=> (inRange = {})

\* ---- C2 --------------------------------------------------------------
\* C2: while the timeline is streaming and non-empty and currentTime is at
\* or after the last segment's start, the lookup returns the last index.
C2_StreamingOverride ==
    (/\ transcript.defined
     /\ transcript.isBusy
     /\ Len(transcript.chunks) > 0
     /\ currentTime >= Chunk(transcript, Len(transcript.chunks) - 1).timestamp[1])
    => getCurrentUtteranceIndex(transcript, currentTime, audioDuration)
           = Len(transcript.chunks) - 1

\* A streaming timeline of two segments whose last segment has ended
\* before currentTime, and the lookup still answers the last index.
C2_Witness ==
    /\ transcript.defined
    /\ transcript.isBusy
    /\ Len(transcript.chunks) = 2
    /\ Chunk(transcript, 1).timestamp[2] # NULL
    /\ currentTime >= Chunk(transcript, 1).timestamp[2]
    /\ currentTime > Chunk(transcript, 1).timestamp[1]
    /\ getCurrentUtteranceIndex(transcript, currentTime, audioDuration) = 1


\* ---- C3 --------------------------------------------------------------
\* The message a merged transcript came from: its text and its chunks
\* without their isEdited flags.
MessageOf(td) ==
    [text |-> td.text,
     chunks |-> [i \in 1..Len(td.chunks) |->
                    [text |-> td.chunks[i].text, timestamp |-> td.chunks[i].timestamp]]]

\* C3: an engine update or complete whose chunk list has an entry at index
\* k leaves segment k edited if it was edited before; step by step, hence
\* across any number of successive updates.
C3_EditPreservedAcrossMerge ==
    [][LET m == MessageOf(transcript')
       IN (Update(m) \/ Complete(m)) =>
              \A k \in 0..(MaxChunks - 1) :
                  (/\ HasChunk(transcript, k)
                   /\ Chunk(transcript, k).isEdited
                   /\ k < Len(m.chunks))
                  => (HasChunk(transcript', k) /\ Chunk(transcript', k).isEdited)]_vars

\* An edited segment in a streaming timeline whose text is the engine's
\* again and not the draft that was committed: an update has been merged
\* over the edit, and the engine can send more.
C3_Witness ==
    /\ pending > 0
    /\ transcript.defined
    /\ transcript.isBusy
    /\ editingIndex = NULL
    /\ editText = "x"
    /\ \E k \in 0..(Len(transcript.chunks) - 1) : Chunk(transcript, k).isEdited
    /\ \A k \in 0..(Len(transcript.chunks) - 1) : Chunk(transcript, k).text = "a"

\* ---- C4 --------------------------------------------------------------
\* C4: handling a complete message a second time gives the transcript that
\* handling it once gave (segment texts, timestamps, isEdited flags, full
\* text, the transcript's isBusy), whatever the transcript before, its
\* edits included; and every handling of a complete message leaves that
\* merged transcript and the hook's isBusy false.
C4_IdempotentFinalMerge ==
    \A m \in EditMsgs :
        /\ MergeMessage(MergeMessage(transcript, m, FALSE), m, FALSE)
               = MergeMessage(transcript, m, FALSE)
        /\ ~ENABLED (/\ Complete(m)
                     /\ ~(/\ transcript' = MergeMessage(transcript, m, FALSE)
                          /\ ~isBusy'))

\* A complete message has been handled over an edited segment, and a
\* second request is still to be answered: the same message can be handled
\* again.
C4_Witness ==
    /\ pending > 0
    /\ ~isBusy
    /\ transcript.defined
    /\ ~transcript.isBusy
    /\ \E k \in 0..(Len(transcript.chunks) - 1) : Chunk(transcript, k).isEdited
    /\ \E m \in EditMsgs : transcript = MergeMessage(transcript, m, FALSE)

\* ---- C5 --------------------------------------------------------------
\* C5: Enter without shift in the edit control of segment i leaves the
\* session idle, segment i with the draft as its text, isEdited and its
\* timestamps as before, and the full text equal to the concatenation of
\* the segment texts.
C5_CommitRoundTrip ==
    [][handleEditKeyDown("Enter", FALSE) =>
          /\ editingIndex' = NULL
          /\ HasChunk(transcript', editingIndex)
          /\ Chunk(transcript', editingIndex).text = editText
          /\ Chunk(transcript', editingIndex).isEdited
          /\ Chunk(transcript', editingIndex).timestamp
                 = Chunk(transcript, editingIndex).timestamp
          /\ transcript'.text = Join(transcript'.chunks)]_vars

\* After a commit of the draft "x" on the second segment of a streaming
\* timeline.
C5_Witness ==
    /\ editingIndex = NULL
    /\ editText = "x"
    /\ transcript.defined
    /\ transcript.isBusy
    /\ Len(transcript.chunks) = 2
    /\ Chunk(transcript, 1).isEdited
    /\ Chunk(transcript, 1).text = "x"
    /\ Chunk(transcript, 1).timestamp[2] # NULL
    /\ transcript.text = "ax"

\* ---- C6 --------------------------------------------------------------
\* C6: Escape in the edit control leaves the session idle and the whole
\* timeline (every segment, the full text, the flags) as it was, whatever
\* the draft.
C6_CancelLeavesTimeline ==
    [][\A shiftKey \in BOOLEAN :
          handleEditKeyDown("Escape", shiftKey) =>
              /\ editingIndex' = NULL
              /\ transcript' = transcript
              /\ UNCHANGED <<isBusy, pending>>]_vars

\* After a cancel: idle with the draft "x" still in editText and no
\* segment holding it or marked edited.
C6_Witness ==
    /\ editingIndex = NULL
    /\ editText = "x"
    /\ transcript.defined
    /\ Len(transcript.chunks) = 2
    /\ \A k \in 0..1 : ~Chunk(transcript, k).isEdited /\ Chunk(transcript, k).text = "a"

\* ---- C7 --------------------------------------------------------------
GuardedKeys == {"ArrowRight", "ArrowLeft", "Enter", " "}

\* C7: with no active segment (an empty or missing timeline, or currentTime
\* outside every segment's range), ArrowRight, ArrowLeft, Enter and Space
\* change nothing: no state of the view or the hook, nothing of the
\* transport.  (No step of the key handler from such a state changes a
\* variable.)
C7_KeysGuardedByActiveSegment ==
    ActiveIndex = NONE =>
        \A key \in GuardedKeys, inInput \in BOOLEAN :
            ~ENABLED (handleKeyDown(key, inInput) /\ ~UNCHANGED vars)

\* Idle over a complete timeline of two segments, the transport at hand
\* and playing, currentTime before the first segment's start: no segment
\* is active, and Space has not paused.
C7_Witness ==
    /\ editingIndex = NULL
    /\ transcript.defined
    /\ ~transcript.isBusy
    /\ Len(transcript.chunks) = 2
    /\ currentTime < Chunk(transcript, 0).timestamp[1]
    /\ audioRef
    /\ audioElement
    /\ ~audPaused
    /\ ActiveIndex = NONE

\* ---- C8 --------------------------------------------------------------
\* C8: the playback rate of the view and the rate written to the
\* transport stay within [0.25, 4.0]; counted in quarters, every rate is a
\* multiple of 0.25.
C8_PlaybackRateInRange ==
    /\ playbackSpeed \in MinSpeed..MaxSpeed
    /\ audRate \in MinSpeed..MaxSpeed

\* The rate is at its maximum, on the view, in the listener and on the
\* transport, and ArrowUp is not ignored: a further press clamps.
C8_Witness ==
    /\ playbackSpeed = MaxSpeed
    /\ lsnPlaybackSpeed = MaxSpeed
    /\ audRate = MaxSpeed
    /\ audioRef
    /\ ~KeyIgnored(FALSE)

\* ---- C9 --------------------------------------------------------------
\* What a seek to time does: the transport the hook holds is positioned
\* there and plays; nothing else changes.
SeeksTo(time) ==
    /\ audioElement => (audTime' = time /\ ~audPaused')
    /\ ~audioElement => UNCHANGED <<audTime, audPaused>>
    /\ UNCHANGED <<mgrVars, hasAudio, audRate, audDur>>
    /\ UNCHANGED hookVars
    /\ UNCHANGED viewVars

\* C9: idle, focus outside text inputs, active index i: ArrowRight seeks to
\* the start of segment i+1 if i is not the last index and does nothing if
\* it is; ArrowLeft seeks to the start of segment i-1 if i > 0 and does
\* nothing if i = 0.  (No step of the key handler does otherwise.)
C9_ArrowKeysSeekNeighbour ==
    (editingIndex = NULL /\ ActiveIndex # NONE) =>
        /\ ~ENABLED (/\ handleKeyDown("ArrowRight", FALSE)
                     /\ ~(IF ActiveIndex < Len(transcript.chunks) - 1
                          THEN SeeksTo(Chunk(transcript, ActiveIndex + 1).timestamp[1])
                          ELSE UNCHANGED vars))
        /\ ~ENABLED (/\ handleKeyDown("ArrowLeft", FALSE)
                     /\ ~(IF ActiveIndex > 0
                          THEN SeeksTo(Chunk(transcript, ActiveIndex - 1).timestamp[1])
                          ELSE UNCHANGED vars))

\* ---- C10 -------------------------------------------------------------
\* C10: with the session idle and the keyboard focus outside text inputs,
\* Enter on the active segment i starts editing i with the segment's text
\* as draft, for i = 0 as for every other i, and leaves the timeline as it
\* was.  (No step of the key handler does otherwise.)
C10_EnterStartsEditing ==
    (editingIndex = NULL /\ ActiveIndex # NONE) =>
        ~ENABLED (/\ handleKeyDown("Enter", FALSE)
                  /\ ~(/\ editingIndex' = ActiveIndex
                       /\ editText' = Chunk(transcript, ActiveIndex).text
                       /\ transcript' = transcript))

\* ---- C11 -------------------------------------------------------------
\* What the specification's merge (4.2) makes of the timeline and message
\* m: as many segments as m has, each with m's text and timestamp, edited
\* exactly when the timeline had an edited segment at the same index.
MergedAsSpecified(before, m, after) ==
    /\ after.defined
    /\ Len(after.chunks) = Len(m.chunks)
    /\ \A i \in 0..(Len(m.chunks) - 1) :
          /\ Chunk(after, i).text = m.chunks[i + 1].text
          /\ Chunk(after, i).timestamp = m.chunks[i + 1].timestamp
          /\ Chunk(after, i).isEdited
                 <=> (HasChunk(before, i) /\ Chunk(before, i).isEdited)

\* C11: after an engine update, partial or final, the timeline has as many
\* segments as the update's list, segment i has the update's text and
\* timestamp (also when the user had edited it), and is edited exactly
\* when the previous timeline had an edited segment at index i.  (No
\* handling of a message does otherwise.)
C11_PositionalMerge ==
    \A m \in EditMsgs :
        ~ENABLED (/\ Update(m) \/ Complete(m)
                  /\ ~MergedAsSpecified(transcript, m, transcript'))

\* A final update of two segments has been merged over a timeline whose
\* first segment the user had committed as "x": the first segment has the
\* engine's text again and is still marked, the second is not.
C11_Witness ==
    /\ transcript.defined
    /\ ~transcript.isBusy
    /\ editText = "x"
    /\ editingIndex = NULL
    /\ Len(transcript.chunks) = 2
    /\ Chunk(transcript, 0).isEdited
    /\ Chunk(transcript, 0).text = "a"
    /\ ~Chunk(transcript, 1).isEdited

\* ---- C12 -------------------------------------------------------------
\* C12: handling an engine error leaves the segments and the full text as
\* they were, attaches the error, and leaves isBusy false in the
\* transcript and in the hook; with no timeline (an error right after the
\* start) the result is the empty timeline with the error.
C12_ErrorKeepsTimeline ==
    ~ENABLED (/\ ErrorMessage
              /\ ~(/\ transcript'.defined
                   /\ transcript'.chunks
                          = (IF transcript.defined THEN transcript.chunks ELSE <<>>)
                   /\ transcript'.text
                          = (IF transcript.defined THEN transcript.text ELSE "")
                   /\ transcript'.error = EngineError
                   /\ ~transcript'.isBusy
                   /\ ~isBusy'))

\* An error has been handled over a timeline that holds a segment the
\* user committed as "x": the segment and the full text are still there.
C12_Witness ==
    /\ transcript.defined
    /\ transcript.error = EngineError
    /\ ~transcript.isBusy
    /\ ~isBusy
    /\ Len(transcript.chunks) = 2
    /\ Chunk(transcript, 1).isEdited
    /\ Chunk(transcript, 1).text = "x"
    /\ transcript.text = "ax"
    /\ editingIndex = NULL

\* ---- C13 -------------------------------------------------------------
\* C13: after a final update is handled, isBusy and isModelLoading are
\* false in the transcript output and in the transcriber's own flags,
\* whatever messages came before.  (No handling of a complete message
\* ends otherwise.)
C13_CompleteClearsFlags ==
    \A m \in KeyMsgs :
        ~ENABLED (/\ Complete(m)
                  /\ ~(/\ ~transcript'.isBusy
                       /\ ~transcript'.isModelLoading
                       /\ ~isBusy'
                       /\ ~isModelLoading'))

\* ---- C14 -------------------------------------------------------------
\* The timeline is one that a final update or an error has left, with no
\* new audio source and no restart since: only case "complete" and case
\* "error" make a transcript that is not busy and has segments or an
\* error; a new source makes the empty transcript, a restart makes it
\* undefined, an update makes it busy.
Frozen ==
    /\ transcript.defined
    /\ ~transcript.isBusy
    /\ (Len(transcript.chunks) > 0 \/ transcript.error # NoError)

\* C14: once a final update or an error has been handled, no later update
\* or complete message changes the segments, the text or the busy flag of
\* the timeline, until a new audio source is selected or transcription is
\* restarted.
C14_FrozenAfterFinal ==
    Frozen =>
        \A m \in KeyMsgs :
            ~ENABLED (/\ Update(m) \/ Complete(m)
                      /\ ~(/\ transcript'.chunks = transcript.chunks
                           /\ transcript'.text = transcript.text
                           /\ transcript'.isBusy = transcript.isBusy))

\* ---- C15 -------------------------------------------------------------
\* A new audio source has been selected while an engine call is in
\* flight, and no transcription has been started since: the transcript is
\* the empty one of onInputChange while the hook is still busy (a start
\* leaves it undefined, an update busy, an error with its error, and a
\* final update leaves the hook not busy).
NewSourceDuringCall ==
    /\ transcript = EmptyTranscript
    /\ isBusy
    /\ pending > 0

\* C15: after a new audio source is selected while an engine call for the
\* previous audio is in flight, no update, complete or error message of
\* that call modifies the new session's timeline: it stays empty and not
\* busy until a transcription of the new audio is started.
C15_StaleCallInvalidated ==
    NewSourceDuringCall =>
        /\ \A m \in KeyMsgs :
              ~ENABLED (/\ Update(m) \/ Complete(m)
                        /\ transcript' # transcript)
        /\ ~ENABLED (ErrorMessage /\ transcript' # transcript)

\* --------------------------------------------------------------------- C16
\* A download is superseded once a newer source has been chosen: another
\* URL or a recording (audioDownloadUrl no longer is its URL) or a file
\* (only onFileUpdate sets audioData of source FILE, and the download
\* cleared audioData when it started).
Superseded(d) == d.url # audioDownloadUrl \/ audioData = FileAudio

\* C16: a URL download is aborted whenever the source changes (another
\* URL, a file, a recording), and its data never becomes the current audio
\* after a newer source has been chosen: every superseded download has been
\* aborted and can no longer set audioData.
C16_DownloadAbortedOnSourceChange ==
    \A d \in downloads :
        Superseded(d) => d.aborted /\ ~ENABLED DownloadDecoded(d)

\* --------------------------------------------------------------------- C17
\* C17: when an <audio> element appears or gets a new source after
\* Transcript has mounted, the tracker is subscribed to that element (so
\* that its timeupdate, loadedmetadata and seeking events reach
\* currentTime and audioDuration) and its duration is 0 until the element
\* reports metadata.
C17_TrackerFollowsAudioElement ==
    hasAudio => /\ audioRef
                /\ audDur = 0 => audioDuration = 0

\* --------------------------------------------------------------------- C18
\* C18: with no edit in progress and a transport, ArrowUp sets the
\* transport's playback rate to min(4.0, rate + 0.25) and ArrowDown to
\* max(0.25, rate - 0.25), whatever the timeline and the active segment
\* are: no press of either key outside an input does anything else.
C18_RateKeysNeedOnlyTransport ==
    (editingIndex = NULL /\ hasAudio) =>
        /\ ~ENABLED (/\ handleKeyDown("ArrowUp", FALSE)
                     /\ audRate' # Min(MaxSpeed, audRate + SpeedStep))
        /\ ~ENABLED (/\ handleKeyDown("ArrowDown", FALSE)
                     /\ audRate' # Max(MinSpeed, audRate - SpeedStep))

\* --------------------------------------------------------------------- C19
\* C19: in every state the segments rendered as playing are exactly the
\* segment the active-segment lookup returns: segment i is highlighted if
\* and only if the lookup of the same render returns i.
C19_HighlightIsLookup ==
    transcript.defined =>
        \A i \in 0..(Len(transcript.chunks) - 1) :
            isPlaying(transcript, i, currentTime, audioDuration)
            <=> getCurrentUtteranceIndex(transcript, currentTime, audioDuration) = i

AnyStep == Next \/ NextKeys \/ NextRate \/ NextEngine \/ NextAudio

\* C21: while a segment is being edited, the window's key listener ignores
\* every key (no seek, no play or pause, no rate change, no edit of another
\* segment), and no step changes editingIndex except the commit and the
\* cancel of the edit control.
C21_EditingIgnoresGlobalKeys ==
    editingIndex # NULL =>
        /\ \A key \in Keys, inInput \in BOOLEAN :
               ~ENABLED (handleKeyDown(key, inInput) /\ ~UNCHANGED vars)
        /\ ~ENABLED (/\ AnyStep
                     /\ editingIndex' # editingIndex
                     /\ ~(EditControlShown /\ (CommitKey \/ CancelKey)))

\* An edit is in progress on a segment other than the active one, with a
\* transport the keys would act on.
C21_Witness ==
    /\ editingIndex # NULL
    /\ EditControlShown
    /\ hasAudio /\ audioRef /\ audioElement
    /\ CurrentIndex # NONE
    /\ CurrentIndex # editingIndex

\* --------------------------------------------------------------------- C22
\* C22: the tracker's listeners are attached to at most one <audio>
\* element at any time; a re-run of the subscribing effect (a press that
\* changes the playback speed) leaves none on an element it subscribed to
\* earlier; and once Transcript has unmounted no listener is attached.
C22_ListenersReleased ==
    /\ ~(audioRef /\ detachedListeners)
    /\ \A key \in RateKeys :
           ~ENABLED (/\ handleKeyDown(key, FALSE)
                     /\ playbackSpeed' # playbackSpeed
                     /\ detachedListeners')
    /\ ~mounted => ~audioRef /\ ~detachedListeners

\* Transcript has unmounted after its effect re-subscribed (the playback
\* speed was changed) to an element that replaced an earlier one.
C22_Witness ==
    /\ ~mounted
    /\ hasAudio
    /\ audioData = RecordingAudio
    /\ playbackSpeed # InitSpeed

\* --------------------------------------------------------------------- C23
\* The files of a progress-item list, and the items of files other than f.
ItemFiles(items) == {items[i].file : i \in 1..Len(items)}
OtherItems(items, f) == SelectSeq(items, LAMBDA it : it.file # f)

\* C23: the model-loading messages leave the Segment Timeline and the busy
\* flag alone and change only the progress-item list and the model-loading
\* flag: initiate adds an item for its file and keeps the others, progress
\* sets the progress of the items of its file and keeps the others, done
\* removes the items of its file and keeps the others, ready changes no
\* item.
C23_LifecycleMessages ==
    /\ \A f \in Files :
           ~ENABLED (/\ Initiate(f)
                     /\ ~(/\ f \in ItemFiles(progressItems')
                          /\ Len(progressItems') = Len(progressItems) + 1
                          /\ SubSeq(progressItems', 1, Len(progressItems)) = progressItems
                          /\ transcript' = transcript /\ isBusy' = isBusy
                          /\ UNCHANGED viewVars))
    /\ \A f \in Files, p \in ProgressValues :
           ~ENABLED (/\ Progress(f, p)
                     /\ ~(/\ Len(progressItems') = Len(progressItems)
                          /\ \A i \in 1..Len(progressItems) :
                                 IF progressItems[i].file = f
                                 THEN progressItems'[i] = ProgressItem(f, p)
                                 ELSE progressItems'[i] = progressItems[i]
                          /\ transcript' = transcript /\ isBusy' = isBusy
                          /\ isModelLoading' = isModelLoading
                          /\ UNCHANGED viewVars))
    /\ \A f \in Files :
           ~ENABLED (/\ Done(f)
                     /\ ~(/\ f \notin ItemFiles(progressItems')
                          /\ progressItems' = OtherItems(progressItems, f)
                          /\ transcript' = transcript /\ isBusy' = isBusy
                          /\ isModelLoading' = isModelLoading
                          /\ UNCHANGED viewVars))
    /\ ~ENABLED (/\ Ready
                 /\ ~(/\ progressItems' = progressItems
                      /\ transcript' = transcript /\ isBusy' = isBusy
                      /\ UNCHANGED viewVars))

\* Two model files are loading next to a timeline that holds a segment: a
\* progress or done message for one of them has the other to keep.
C23_Witness ==
    /\ pending > 0
    /\ Len(progressItems) = 2
    /\ progressItems[1].file # progressItems[2].file
    /\ progressItems[1].progress # NULL
    /\ transcript.defined
    /\ Len(transcript.chunks) > 0

\* --------------------------------------------------------------------- C24
\* A new, empty Segment Timeline.
IsEmptyTimeline(td) ==
    /\ Len(td.chunks) = 0
    /\ td.text = ""
    /\ td.error = NoError
    /\ ~td.isBusy

SourceSelected == FileSelected \/ (\E u \in Urls : UrlSelected(u)) \/ RecordingSelected

\* C24: selecting a file, a URL or a recording replaces the timeline by a
\* new empty one (no segments, empty text, no error, not busy, hence no
\* isEdited flag of the previous one); starting a transcription discards
\* the previous timeline too, so that no segment of the first update that
\* follows is flagged as edited.
C24_NewSourceEmptiesTimeline ==
    /\ ~ENABLED (/\ SourceSelected
                 /\ ~(transcript'.defined /\ IsEmptyTimeline(transcript')))
    /\ ~ENABLED (/\ Start
                 /\ ~(/\ Len(transcript'.chunks) = 0
                      /\ \A m \in EditMsgs :
                             \A k \in 1..Len(m.chunks) :
                                 ~MergeMessage(transcript', m, TRUE).chunks[k].isEdited))

\* The timeline holds an edited segment and an error-free text when a
\* source can be selected and a transcription started.
C24_Witness ==
    /\ transcript.defined
    /\ \E k \in 0..(Len(transcript.chunks) - 1) : Chunk(transcript, k).isEdited
    /\ transcript.text # ""
    /\ hasAudio
    /\ pending < MaxPending
    /\ InFlight < MaxDownloads

\* --------------------------------------------------------------------- C25
\* C25: when decoding the selected input fails, the transcript is the one
\* from before the source was selected.  For a URL whose download is the
\* current source and awaits decoding, entered next to a timeline and with
\* the transcript untouched since: after the decode failure the transcript
\* equals the one onUrlUpdate found.
C25_DecodeFailureKeepsTranscript ==
    \A d \in downloads :
        (/\ d.stage = "decode"
         /\ ~Superseded(d)
         /\ d.prior.defined
         /\ transcript = EmptyTranscript) =>
            ~ENABLED (DownloadDecodeFailed(d) /\ transcript' # d.prior)

\* --------------------------------------------------------------------- C26
\* C26: whenever a segment is being edited, it is a segment of the current
\* timeline, so that its edit control is rendered and commit and cancel
\* are possible.
C26_EditedSegmentExists ==
    editingIndex # NULL => EditControlShown

\* --------------------------------------------------------------------- C27
\* C27: whenever the transcript is defined, its isBusy flag equals the
\* hook's own isBusy flag.
C27_BusyFlagsAgree ==
    transcript.defined => transcript.isBusy = isBusy

\* --------------------------------------------------------------------- C28
\* The segments start at strictly increasing times and each has a
\* non-empty effective range (an open-ended last segment starts before the
\* end of the audio).
NavigableTimeline ==
    /\ transcript.defined
    /\ ~transcript.isBusy
    /\ \A k \in 0..(Len(transcript.chunks) - 2) :
           Chunk(transcript, k).timestamp[1] < Chunk(transcript, k + 1).timestamp[1]
    /\ \A k \in 0..(Len(transcript.chunks) - 1) :
           Chunk(transcript, k).timestamp[1] < EffectiveEnd(transcript, k, audioDuration)

\* The segment that is active once the transport's position is the view's
\* currentTime.
ActiveAfterSeek ==
    getCurrentUtteranceIndex(transcript', audTime', audioDuration')

\* C28: in a complete timeline with strictly increasing start times, an
\* ArrowRight that seeks from the active segment i makes i+1 the active
\* segment once currentTime shows the new position, and an ArrowLeft that
\* seeks makes i-1 active, whatever end times the segments carry.
C28_SeekMakesNeighbourActive ==
    (NavigableTimeline /\ lsnAudioDuration = audioDuration) =>
        /\ ~ENABLED (/\ handleKeyDown("ArrowRight", FALSE)
                     /\ audTime' # audTime
                     /\ ActiveAfterSeek # CurrentIndex + 1)
        /\ ~ENABLED (/\ handleKeyDown("ArrowLeft", FALSE)
                     /\ audTime' # audTime
                     /\ ActiveAfterSeek # CurrentIndex - 1)

\* --------------------------------------------------------------------- C29
\* C29: while the download of the currently selected URL is in flight (its
\* request is neither answered nor aborted), the loading progress is
\* defined.
C29_ProgressWhileDownloading ==
    (\E d \in downloads : /\ d.url = audioDownloadUrl
                          /\ d.stage = "fetch"
                          /\ ~d.aborted)
        => progress # NULL

\* --------------------------------------------------------------------- C30
\* C30: the commit of an edit on segment i changes only segment i's text
\* and isEdited flag and the full text: the number of segments, the other
\* segments, segment i's timestamps and the busy, model-loading and error
\* fields stay.
C30_CommitFrame ==
    ~ENABLED (/\ handleEditKeyDown("Enter", FALSE)
              /\ ~(/\ Len(transcript'.chunks) = Len(transcript.chunks)
                   /\ \A k \in 0..(Len(transcript.chunks) - 1) :
                          IF k = editingIndex
                          THEN Chunk(transcript', k).timestamp
                                   = Chunk(transcript, k).timestamp
                          ELSE Chunk(transcript', k) = Chunk(transcript, k)
                   /\ transcript'.defined = transcript.defined
                   /\ transcript'.isBusy = transcript.isBusy
                   /\ transcript'.isModelLoading = transcript.isModelLoading
                   /\ transcript'.error = transcript.error))

\* The draft "x" has been committed on the second of two segments of a
\* streaming timeline whose first segment is as the engine sent it.
C30_Witness ==
    /\ editingIndex = NULL
    /\ transcript.defined
    /\ transcript.isBusy
    /\ Len(transcript.chunks) = 2
    /\ Chunk(transcript, 1).isEdited
    /\ Chunk(transcript, 1).text = "x"
    /\ ~Chunk(transcript, 0).isEdited
    /\ Chunk(transcript, 0).text = "a"
====
